---- MODULE Spec2Model ----
(***************************************************************************)
(* A model of plyql's command line client, src/cli.ts:                     *)
(*   - parseIntervalString, the interval resolver;                         *)
(*   - run, from option validation to the engine call and its callbacks;   *)
(*   - the requester chain run builds (bare transport, retry, verbose,     *)
(*     concurrent limit) and the requests that travel through it.          *)
(* Time is counted in whole UTC days since the epoch; an ISO-8601 duration *)
(* "PnD" is n days.                                                        *)
(***************************************************************************)
EXTENDS Integers, Sequences, FiniteSets, TLC

\* ------------------------------------------------------------------ bounds
\* The latest instant (day number) an interval string or the clock names.
MaxTime == 3
\* The longest duration (days) an interval string names.
MaxDur == 2
\* The most '/'-separated parts of an interval string.
MaxParts == 3

\* The most requests the evaluation engine sends through the requester for one
\* query, and the most it sends where the options are what varies.
MaxReq == 3
MaxRunReq == 1
\* The largest --retry and --concurrent values.
MaxRetry == 2
MaxConcurrent == 2

VARIABLES
  intervalString,  \* parseIntervalString's argument, as its '/'-separated parts
  now,             \* what new Date() returns
  interval,        \* what parseIntervalString returned or threw
  ipc,             \* "call" before the call, "returned" after it
  parsed,          \* run: the options (nopt's result, or the command object)
  command,         \* run: TRUE when run was given a command object
  pc,              \* run: "start", "returned", "executing", "resolved", "rejected"
  out,             \* run: the console.log calls so far, one entry per call
  dataName,        \* run: var dataName
  dataSource,      \* run: var dataSource
  requester,       \* run: var requester, the layers from the innermost out
  dataset,         \* run: var dataset (External.fromJS), built or not
  engineCalls,     \* run: the calls made on the evaluation engine, in order
  context,         \* run: the names bound in var context
  engineError,     \* the error the engine's promise was rejected with
  planned,         \* how many requests the engine sends for this query
  arrived,         \* how many of them it has handed to the requester
  requests,        \* each request: where it is in the requester's layers
  requestQueue,    \* the concurrent limit layer's queue of waiting requests
  outstandingRequests  \* the concurrent limit layer's count of admitted ones

ivars == <<intervalString, now, interval, ipc>>

rvars ==
  <<parsed, command, pc, out, dataName, dataSource, requester, dataset,
    engineCalls, context, engineError>>

qvars == <<planned, arrived, requests, requestQueue, outstandingRequests>>

vars ==
  <<intervalString, now, interval, ipc, parsed, command, pc, out, dataName,
    dataSource, requester, dataset, engineCalls, context, engineError,
    planned, arrived, requests, requestQueue, outstandingRequests>>

\* ---------------------------------------------------------- interval strings
\* One part of str.split('/'): an ISO-8601 duration PnD (its first character
\* is 'P') or the ISO string of the instant at day n.
DurationPart(n) == [P |-> TRUE, n |-> n]
InstantPart(n) == [P |-> FALSE, n |-> n]

Parts ==
  {DurationPart(n) : n \in 1..MaxDur} \cup {InstantPart(n) : n \in 0..MaxTime}

\* The strings the resolver is given: at most one side of 'A/B' is a duration
\* (new Date of a duration string is no date at all).
IntervalStrings ==
  {s \in UNION {[1..k -> Parts] : k \in 1..MaxParts} :
     Len(s) = 2 => ~(s[1].P /\ s[2].P)}

\* new Date(p) of an instant's ISO string.
NewDate(p) == p.n

\* Duration.fromJS(p) of a duration string.
DurationFromJS(p) == p.n

\* duration.move(time, Timezone.UTC, step): step durations forward in UTC.
DurationMove(duration, time, step) == time + step * duration

\* What new Date(null) is: the epoch.
EpochOfNull == 0

\* duration.move(null, Timezone.UTC, step): the library dereferences the date
\* it is given (null.valueOf() throws a TypeError) or, if it coerces it first,
\* measures from the epoch.  Both outcomes are kept.
DurationMoveNull(duration, step) ==
  {[threw |-> TRUE],
   [threw |-> FALSE, time |-> DurationMove(duration, EpochOfNull, step)]}

\* What parseIntervalString does: it throws an Error, or it returns
\* TimeRange.fromJS({ start, end }).
Threw(msg) == [threw |-> TRUE, message |-> msg]

Range(start, end) == [threw |-> FALSE, start |-> start, end |-> end]

\* parseIntervalString with the duration of its first branch moved forward.
parseIntervalString_forward(parts, clock) ==
  IF Len(parts) > 2 THEN {Threw("Can not parse string")}
  ELSE
    LET p0 == parts[1]
        p1 == IF Len(parts) = 2 THEN parts[2] ELSE InstantPart(clock)
    IN  IF p0.P
          THEN LET duration == DurationFromJS(p0)
                   end == NewDate(p1)
                   start == DurationMove(duration, end, 1)
               IN  {Range(start, end)}
        ELSE IF p1.P
          THEN LET start == NewDate(p0)
                   duration == DurationFromJS(p1)
               IN  {IF m.threw THEN Threw("TypeError") ELSE Range(start, m.time) :
                      m \in DurationMoveNull(duration, 1)}
        ELSE {Range(NewDate(p0), NewDate(p1))}

\* parseIntervalString(str), with new Date() = clock: the set of its outcomes.
parseIntervalString(parts, clock) ==
  IF Len(parts) > 2 THEN {Threw("Can not parse string")}
  ELSE
    LET p0 == parts[1]
        p1 == IF Len(parts) = 2 THEN parts[2] ELSE InstantPart(clock)
    IN  IF p0.P
          THEN LET duration == DurationFromJS(p0)
                   end == NewDate(p1)
                   start == DurationMove(duration, end, -1)
               IN  {Range(start, end)}
        ELSE IF p1.P
          THEN LET start == NewDate(p0)
                   duration == DurationFromJS(p1)
               IN  {IF m.threw THEN Threw("TypeError") ELSE Range(start, m.time) :
                      m \in DurationMoveNull(duration, 1)}
        ELSE {Range(NewDate(p0), NewDate(p1))}

\* ------------------------------------------------------------ run: options
\* An option nopt leaves out is the empty string (or the empty list): run tests
\* its string options by truthiness, which the empty string fails too.  A
\* numeric option keeps whether it is an own property (hasOwnProperty).
Absent == [has |-> FALSE, val |-> 0]
Given(v) == [has |-> TRUE, val |-> v]

\* String.prototype.toLowerCase, on the output values the model draws.
ToLowerCase(s) ==
  CASE s = "CSV" -> "csv"
    [] s = "Tsv" -> "tsv"
    [] OTHER -> s

\* Expression.parseSQL(query): the parse of the queries the model draws; any
\* other string throws.
parseSQL(query) ==
  CASE query = "SELECT * FROM bar" ->
         [threw |-> FALSE, verb |-> "SELECT", table |-> "bar"]
    [] query = "SELECT 1" ->
         [threw |-> FALSE, verb |-> "SELECT", table |-> ""]
    [] query = "DESCRIBE bar" ->
         [threw |-> FALSE, verb |-> "DESCRIBE", table |-> "bar"]
    [] query = "SHOW bar" ->
         [threw |-> FALSE, verb |-> "SHOW", table |-> "bar"]
    [] OTHER -> [threw |-> TRUE, verb |-> "", table |-> ""]

\* parsed.argv.original.length === 0: no option was given at all.
NoArguments(p) ==
  /\ ~p.help /\ ~p.version /\ ~p.verbose
  /\ p.allow = <<>> /\ p.output = "" /\ p.druid = "" /\ p.host = ""
  /\ p.query = "" /\ p.dataSource = "" /\ p.interval = <<>>
  /\ ~p.retry.has /\ ~p.concurrent.has

\* The first allow value that is neither 'eternity' nor 'select', if any.
UnexpectedAllows(allows) ==
  {i \in 1..Len(allows) : ~(allows[i] = "eternity" \/ allows[i] = "select")}

\* allows.indexOf(v) !== -1
IndexOf(allows, v) == \E i \in 1..Len(allows) : allows[i] = v

\* ------------------------------------------------- run: the requester chain
DefaultRetry == 2
DefaultConcurrent == 2
RetryDelay == 500
\* RetryOnTimeout with timeouts retried like any other failure.
RetryOnTimeout_retried == TRUE

\* retryOnTimeout: false
RetryOnTimeout == FALSE

\* druidRequesterFactory({host, timeout})
DruidRequester == <<[layer |-> "druid"]>>

\* parsed.hasOwnProperty('retry') ? parsed['retry'] : 2
RetryOf(p) == IF p.retry.has THEN p.retry.val ELSE DefaultRetry

\* parsed.hasOwnProperty('concurrent') ? parsed['concurrent'] : 2
ConcurrentOf(p) == IF p.concurrent.has THEN p.concurrent.val ELSE DefaultConcurrent

\* WrapRetry with the retry layer left out for a retry count of 1.
WrapRetry_late(rq, retry) ==
  IF retry > 1
    THEN Append(rq, [layer |-> "retry", retry |-> retry, delay |-> RetryDelay,
                     retryOnTimeout |-> RetryOnTimeout])
    ELSE rq

\* if (retry > 0) requester = helper.retryRequesterFactory({...})
WrapRetry(rq, retry) ==
  IF retry > 0
    THEN Append(rq, [layer |-> "retry", retry |-> retry, delay |-> RetryDelay,
                     retryOnTimeout |-> RetryOnTimeout])
    ELSE rq

\* if (verbose) requester = helper.verboseRequesterFactory({...})
WrapVerbose(rq, verbose) ==
  IF verbose THEN Append(rq, [layer |-> "verbose"]) ELSE rq

\* WrapConcurrent with the limit one too high.
WrapConcurrent_offByOne(rq, concurrent) ==
  IF concurrent > 0
    THEN Append(rq, [layer |-> "concurrentLimit",
                     concurrentLimit |-> concurrent + 1])
    ELSE rq

\* if (concurrent > 0) requester = helper.concurrentLimitRequesterFactory({...})
WrapConcurrent(rq, concurrent) ==
  IF concurrent > 0
    THEN Append(rq, [layer |-> "concurrentLimit", concurrentLimit |-> concurrent])
    ELSE rq

\* BuildRequester with the verbose layer put on before the retry layer.
BuildRequester_verboseFirst(p) ==
  WrapConcurrent(WrapRetry(WrapVerbose(DruidRequester, p.verbose), RetryOf(p)),
                 ConcurrentOf(p))

\* The requester run builds: the layers from the innermost to the outermost.
BuildRequester(p) ==
  WrapConcurrent(WrapVerbose(WrapRetry(DruidRequester, RetryOf(p)), p.verbose),
                 ConcurrentOf(p))

\* ------------------------------------------------------ run: the synchronous part
NoDataset == [built |-> FALSE]

\* The state run leaves when it returns without having called the engine.
Returned(lines) ==
  [pc |-> "returned", out |-> lines, dataName |-> "", dataSource |-> "",
   requester |-> <<>>, dataset |-> NoDataset, engineCalls |-> <<>>,
   context |-> {}]

\* ValidOutput with every value let through.
ValidOutput_any(output) == output = output

\* output !== 'json' && output !== 'csv' && output !== 'tsv' && output !== 'flat'
ValidOutput(output) == output \in {"json", "csv", "tsv", "flat"}

\* (parsed['output'] || 'json').toLowerCase()
OutputOf(p) == ToLowerCase(IF p.output # "" THEN p.output ELSE "json")

\* IntervalErrorLines with the error's message left out.
IntervalErrorLines_notice(iv) == <<"Could not parse interval">>

\* The two console.log calls of the catch around parseIntervalString.
IntervalErrorLines(iv) == <<"Could not parse interval", iv.message>>

\* EngineCallFor with DESCRIBE computed like SELECT.
EngineCallFor_compute(verb) ==
  IF verb \in {"DESCRIBE", "SELECT"} THEN <<"compute">> ELSE <<>>

\* The engine call of each verb: dataset.introspect() or expression.compute(context).
EngineCallFor(verb) ==
  IF verb = "DESCRIBE" THEN <<"introspect">>
  ELSE IF verb = "SELECT" THEN <<"compute">>
  ELSE <<>>

\* The three console.log calls of the verbose branch.
VerboseLines(verbose) ==
  IF verbose
    THEN <<"Parsed query as the following plywood expression (as JSON):",
           "<expression JSON>", "---------------------------">>
    ELSE <<>>

\* ResolveDataSource with the query's table tried before the flag.
ResolveDataSource_tableFirst(flag, table) ==
  IF table # "" THEN [ok |-> TRUE, dataName |-> table, dataSource |-> table]
  ELSE IF flag # "" THEN [ok |-> TRUE, dataName |-> "data", dataSource |-> flag]
  ELSE [ok |-> FALSE, dataName |-> "data", dataSource |-> ""]

\* var dataName = 'data'; var dataSource; if (parsed['data-source']) ...
\* [ok, dataName, dataSource]
ResolveDataSource(flag, table) ==
  IF flag # "" THEN [ok |-> TRUE, dataName |-> "data", dataSource |-> flag]
  ELSE IF table # "" THEN [ok |-> TRUE, dataName |-> table, dataSource |-> table]
  ELSE [ok |-> FALSE, dataName |-> "data", dataSource |-> ""]

\* External.fromJS({engine: 'druid', dataSource, ...})
ExternalFromJS(p, ds, filter, rq) ==
  [built |-> TRUE, dataSource |-> ds, filter |-> filter,
   allowEternity |-> IndexOf(p.allow, "eternity"),
   allowSelectQueries |-> IndexOf(p.allow, "select"), requester |-> rq]

\* From the data source on: lines 209 to 346.  iv is what parseIntervalString
\* does when it is called.
RunQuery(p, cmd, sqlParse, iv) ==
  LET lines == VerboseLines(p.verbose)
      ds == ResolveDataSource(p.dataSource, sqlParse.table)
      rq == BuildRequester(p)
      filter == IF p.interval = <<>> THEN [none |-> TRUE]
                ELSE [none |-> FALSE, start |-> iv.start, end |-> iv.end]
      built == ExternalFromJS(p, ds.dataSource, filter, rq)
      resolved == [Returned(lines) EXCEPT !.dataName = ds.dataName,
                                          !.dataSource = ds.dataSource]
  IN  IF ~ds.ok
        THEN [resolved EXCEPT !.out = Append(lines, "must have data source")]
      ELSE IF p.interval # <<>> /\ iv.threw
        THEN [resolved EXCEPT !.requester = rq,
                !.out = lines \o IntervalErrorLines(iv)]
      ELSE IF sqlParse.verb = "DESCRIBE"
        THEN [resolved EXCEPT !.pc = "executing", !.requester = rq,
                !.dataset = built, !.engineCalls = EngineCallFor(sqlParse.verb)]
      ELSE IF sqlParse.verb = "SELECT"
        THEN [resolved EXCEPT !.pc = "executing", !.requester = rq,
                !.dataset = built, !.engineCalls = EngineCallFor(sqlParse.verb),
                !.context = {ds.dataName}]
      ELSE [resolved EXCEPT !.requester = rq, !.dataset = built,
              !.out = Append(lines, "Unsupported verb")]

\* run(command?), up to its return: lines 130 to 346.
run(p, cmd, iv) ==
  IF ~cmd /\ (NoArguments(p) \/ p.help) THEN Returned(<<"<usage>">>)
  ELSE IF p.version THEN Returned(<<"<version>">>)
  ELSE IF UnexpectedAllows(p.allow) # {} THEN Returned(<<"Unexpected allow">>)
  ELSE IF ~ValidOutput(OutputOf(p))
    THEN Returned(<<"output must be one of json, csv, tsv, or flat">>)
  ELSE IF (IF p.druid # "" THEN p.druid ELSE p.host) = ""
    THEN Returned(<<"must have a host">>)
  ELSE IF p.query = ""
    THEN Returned(<<"no query found please use --query (-q) flag">>)
  ELSE IF parseSQL(p.query).threw
    THEN Returned(<<"Could not parse query as SQL:">>)
  ELSE IF parseSQL(p.query).verb \notin {"SELECT", "DESCRIBE"}
    THEN Returned(<<"SQL must be a SELECT or DESCRIBE query">>)
  ELSE RunQuery(p, cmd, parseSQL(p.query), iv)

\* ------------------------------------------------ the requester's layers
\* Where a layer sits in the requester (0: it is not there).
LayerIndex(rq, name) ==
  IF \E k \in 1..Len(rq) : rq[k].layer = name
    THEN CHOOSE k \in 1..Len(rq) : rq[k].layer = name
    ELSE 0

HasLayer(rq, name) == LayerIndex(rq, name) > 0

\* The verbose layer is called once per attempt when the retry layer wraps it,
\* once per request otherwise.
VerboseBeneathRetry(rq) ==
  /\ HasLayer(rq, "verbose") /\ HasLayer(rq, "retry")
  /\ LayerIndex(rq, "verbose") < LayerIndex(rq, "retry")

VerboseAboveRetry(rq) == HasLayer(rq, "verbose") /\ ~VerboseBeneathRetry(rq)

\* A request the engine has not made yet.
IdleRequest ==
  [st |-> "idle", tries |-> 0, attempts |-> 0, failures |-> 0, timeouts |-> 0,
   logged |-> 0, error |-> ""]

NoRequests ==
  /\ arrived = 0
  /\ requests = [i \in 1..MaxReq |-> IdleRequest]
  /\ requestQueue = <<>>
  /\ outstandingRequests = 0

\* What the bare transport answers.
Outcomes == {"ok", "error", "timeout"}

\* The verbose layer's console.log calls on the way in and on the way out.
SendingLines(n) == [k \in 1..n |-> "<verbose: sending query>"]
AnswerLines(n) == [k \in 1..n |-> "<verbose: got answer>"]

\* The bare transport is called with the request (through the verbose layer
\* when that sits beneath the retry layer).
Dispatch(rq, r) ==
  [r EXCEPT !.st = "sent", !.attempts = @ + 1,
            !.logged = @ + (IF VerboseBeneathRetry(rq) THEN 1 ELSE 0)]

\* The request enters the layers beneath the concurrent limit layer: the
\* verbose layer, the retry layer (var tries = 1), the bare transport.
Enter(rq, r) ==
  Dispatch(rq, [r EXCEPT !.tries = 1,
                         !.logged = @ + (IF VerboseAboveRetry(rq) THEN 1 ELSE 0)])

\* The concurrent limit layer's requestFinished: the head of the queue, if
\* any, is admitted in the place the finished request leaves.
\* [admit: the request admitted or 0, queue, outstanding]
RequestFinished(rq, queue, outstanding) ==
  IF ~HasLayer(rq, "concurrentLimit")
    THEN [admit |-> 0, queue |-> queue, outstanding |-> outstanding]
  ELSE IF ~(Len(queue) > 0 /\
            outstanding - 1 < rq[LayerIndex(rq, "concurrentLimit")].concurrentLimit)
    THEN [admit |-> 0, queue |-> queue, outstanding |-> outstanding - 1]
  ELSE [admit |-> Head(queue), queue |-> Tail(queue), outstanding |-> outstanding]

\* The retry layer's handleError: whether the failed attempt is tried again.
\* if (tries > retry) throw err; tries++;
\* if (err.message === "timeout" && !retryOnTimeout) throw err;
RetryAgain(rq, r, outcome) ==
  /\ HasLayer(rq, "retry")
  /\ ~(r.tries > rq[LayerIndex(rq, "retry")].retry)
  /\ ~(outcome = "timeout" /\ ~rq[LayerIndex(rq, "retry")].retryOnTimeout)

\* The engine hands its next request to the requester.
CallRequester ==
  /\ pc = "executing"
  /\ arrived < planned
  /\ arrived' = arrived + 1
  /\ LET i == arrived + 1
         limited == HasLayer(requester, "concurrentLimit")
         admitted ==
           ~limited \/
           outstandingRequests <
             requester[LayerIndex(requester, "concurrentLimit")].concurrentLimit
     IN  IF admitted
           THEN /\ requests' = [requests EXCEPT ![i] = Enter(requester, @)]
                /\ outstandingRequests' =
                     IF limited THEN outstandingRequests + 1 ELSE outstandingRequests
                /\ requestQueue' = requestQueue
                /\ out' = out \o SendingLines(requests'[i].logged)
           ELSE /\ requests' = [requests EXCEPT ![i].st = "queued"]
                /\ requestQueue' = Append(requestQueue, i)
                /\ UNCHANGED <<outstandingRequests, out>>
  /\ UNCHANGED <<parsed, command, pc, dataName, dataSource, requester, dataset,
                 engineCalls, context, engineError, planned>>
  /\ UNCHANGED ivars

\* The bare transport answers request i.
Answer(i, outcome) ==
  /\ requests[i].st = "sent"
  /\ LET r == requests[i]
         failed == [r EXCEPT !.failures = @ + 1,
                             !.timeouts = @ + (IF outcome = "timeout" THEN 1 ELSE 0)]
         counted == IF HasLayer(requester, "retry") /\
                       ~(r.tries > requester[LayerIndex(requester, "retry")].retry)
                      THEN [failed EXCEPT !.tries = @ + 1] ELSE failed
         beneath == IF VerboseBeneathRetry(requester) THEN 1 ELSE 0
         above == IF VerboseAboveRetry(requester) THEN 1 ELSE 0
         fin == RequestFinished(requester, requestQueue, outstandingRequests)
     IN  IF outcome # "ok" /\ RetryAgain(requester, r, outcome)
           THEN /\ requests' = [requests EXCEPT ![i] = [counted EXCEPT !.st = "delay"]]
                /\ out' = out \o AnswerLines(beneath)
                /\ UNCHANGED <<requestQueue, outstandingRequests>>
           ELSE LET settled ==
                      IF outcome = "ok" THEN [r EXCEPT !.st = "ok"]
                      ELSE [counted EXCEPT !.st = "failed", !.error = outcome]
                    after == [requests EXCEPT ![i] = settled]
                IN  /\ requests' =
                         IF fin.admit = 0 THEN after
                         ELSE [after EXCEPT ![fin.admit] = Enter(requester, @)]
                    /\ requestQueue' = fin.queue
                    /\ outstandingRequests' = fin.outstanding
                    /\ out' = out \o AnswerLines(beneath + above)
                              \o SendingLines(IF fin.admit = 0 THEN 0
                                              ELSE requests'[fin.admit].logged)
  /\ UNCHANGED <<parsed, command, pc, dataName, dataSource, requester, dataset,
                 engineCalls, context, engineError, planned, arrived>>
  /\ UNCHANGED ivars

\* The retry layer's delay has passed: the request is sent again.
Redispatch(i) ==
  /\ requests[i].st = "delay"
  /\ requests' = [requests EXCEPT ![i] = Dispatch(requester, @)]
  /\ out' = out \o SendingLines(IF VerboseBeneathRetry(requester) THEN 1 ELSE 0)
  /\ UNCHANGED <<parsed, command, pc, dataName, dataSource, requester, dataset,
                 engineCalls, context, engineError, planned, arrived,
                 requestQueue, outstandingRequests>>
  /\ UNCHANGED ivars

\* ------------------------------------------------------------- run: the state
\* The options one invocation is given.
Options ==
  [help : BOOLEAN, version : BOOLEAN, verbose : BOOLEAN,
   allow : {<<>>, <<"eternity", "select">>, <<"select", "all">>},
   output : {"", "CSV", "Tsv", "flat", "xml"},
   druid : {"", "druid.host"}, host : {"", "10.20.30.40"},
   query : {"", "SELECT * FROM bar", "SELECT 1", "DESCRIBE bar", "SHOW bar",
            "SELEC"},
   dataSource : {"", "foo"},
   interval : {<<>>, <<DurationPart(1)>>, <<InstantPart(0), DurationPart(1)>>,
               <<InstantPart(1), InstantPart(1), InstantPart(1)>>},
   retry : {Absent}, concurrent : {Absent}]

\* Before run is called.
RunIdle ==
  /\ parsed = [help |-> FALSE, version |-> FALSE, verbose |-> FALSE,
               allow |-> <<>>, output |-> "", druid |-> "", host |-> "",
               query |-> "", dataSource |-> "", interval |-> <<>>,
               retry |-> Absent, concurrent |-> Absent]
  /\ command = FALSE
  /\ pc = "start"
  /\ out = <<>>
  /\ dataName = ""
  /\ dataSource = ""
  /\ requester = <<>>
  /\ dataset = NoDataset
  /\ engineCalls = <<>>
  /\ context = {}
  /\ engineError = ""
  /\ NoRequests
  /\ planned = 0

Init ==
  /\ parsed \in Options
  /\ command \in BOOLEAN
  /\ now = MaxTime
  /\ pc = "start"
  /\ out = <<>>
  /\ dataName = ""
  /\ dataSource = ""
  /\ requester = <<>>
  /\ dataset = NoDataset
  /\ engineCalls = <<>>
  /\ context = {}
  /\ engineError = ""
  /\ NoRequests
  /\ planned \in 0..MaxRunReq
  /\ intervalString = <<>>
  /\ interval = [threw |-> FALSE, start |-> 0, end |-> 0]
  /\ ipc = "call"

\* What the call of parseIntervalString at line 259 does, when it is made.
IntervalOutcomes(p, clock) ==
  IF p.interval = <<>> THEN {[threw |-> FALSE, start |-> 0, end |-> 0]}
  ELSE parseIntervalString(p.interval, clock)

\* run, from its call to its return.
RunSync ==
  /\ pc = "start"
  /\ \E iv \in IntervalOutcomes(parsed, now) :
       LET r == run(parsed, command, iv)
       IN  /\ pc' = r.pc
           /\ out' = r.out
           /\ dataName' = r.dataName
           /\ dataSource' = r.dataSource
           /\ requester' = r.requester
           /\ dataset' = r.dataset
           /\ engineCalls' = r.engineCalls
           /\ context' = r.context
  /\ UNCHANGED <<parsed, command, engineError>>
  /\ UNCHANGED ivars
  /\ UNCHANGED qvars

\* The line the SELECT callback prints: switch (output) of lines 309 to 333.
RenderLine(output) ==
  CASE output = "json" -> "<JSON.stringify(data)>"
    [] output = "csv" -> "<data.toCSV()>"
    [] output = "tsv" -> "<data.toTSV()>"
    [] output = "flat" -> "<JSON.stringify(data.flatten())>"
    [] OTHER -> "Unknown output type"

\* The engine's promise is fulfilled: the then-callbacks of lines 293 and 307
\* (none when run was given a command: the promise is the caller's).
EngineResolve ==
  /\ pc = "executing"
  /\ arrived = planned
  /\ \A i \in 1..arrived : requests[i].st = "ok"
  /\ pc' = "resolved"
  /\ out' =
       IF command THEN out
       ELSE IF engineCalls = <<"introspect">>
         THEN Append(out, "<attributes JSON>")
       ELSE Append(out, RenderLine(OutputOf(parsed)))
  /\ UNCHANGED <<parsed, command, dataName, dataSource, requester, dataset,
                 engineCalls, context, engineError>>
  /\ UNCHANGED ivars
  /\ UNCHANGED qvars

\* The errors the engine's promise is rejected with: a request's, or its own.
EngineErrors == {"error", "timeout", "engine"}

\* The engine's promise is rejected: the error callback of line 335 on the
\* SELECT path; the DESCRIBE path has none, and done() rethrows the error.
EngineReject ==
  /\ pc = "executing"
  /\ \A i \in 1..arrived : requests[i].st \in {"ok", "failed"}
  /\ \E e \in EngineErrors :
       /\ e # "engine" =>
            \E i \in 1..arrived : requests[i].st = "failed" /\ requests[i].error = e
       /\ engineError' = e
  /\ pc' = "rejected"
  /\ out' =
       IF ~command /\ engineCalls = <<"compute">>
         THEN Append(out, "There was an error getting the data:")
         ELSE out
  /\ UNCHANGED <<parsed, command, dataName, dataSource, requester, dataset,
                 engineCalls, context>>
  /\ UNCHANGED ivars
  /\ UNCHANGED qvars

Next ==
  \/ RunSync
  \/ CallRequester
  \/ \E i \in 1..MaxReq : \E outcome \in Outcomes : Answer(i, outcome)
  \/ \E i \in 1..MaxReq : Redispatch(i)
  \/ EngineResolve
  \/ EngineReject

Spec == Init /\ [][Next]_vars

\* ---------------------------------------------- the requester specification
\* A well-formed query, with the options the requester is built from varying.
OptionNumbers(max) == {Absent} \cup {Given(v) : v \in 0..max}

ChainOptions ==
  [help : {FALSE}, version : {FALSE}, verbose : BOOLEAN, allow : {<<>>},
   output : {""}, druid : {""}, host : {"10.20.30.40"},
   query : {"SELECT * FROM bar"}, dataSource : {""}, interval : {<<>>},
   retry : OptionNumbers(MaxRetry), concurrent : OptionNumbers(MaxConcurrent)]

InitChain ==
  /\ parsed \in ChainOptions
  /\ command = TRUE
  /\ now = MaxTime
  /\ pc = "start"
  /\ out = <<>>
  /\ dataName = ""
  /\ dataSource = ""
  /\ requester = <<>>
  /\ dataset = NoDataset
  /\ engineCalls = <<>>
  /\ context = {}
  /\ engineError = ""
  /\ NoRequests
  /\ planned = MaxReq
  /\ intervalString = <<>>
  /\ interval = [threw |-> FALSE, start |-> 0, end |-> 0]
  /\ ipc = "call"

SpecChain == InitChain /\ [][Next]_vars

\* ------------------------------------------------- the interval specification
NotCalled == [threw |-> FALSE, start |-> 0, end |-> 0]

InitInterval ==
  /\ intervalString \in IntervalStrings
  /\ now \in 0..MaxTime
  /\ interval = NotCalled
  /\ ipc = "call"
  /\ RunIdle

ParseInterval ==
  /\ ipc = "call"
  /\ \E r \in parseIntervalString(intervalString, now) : interval' = r
  /\ ipc' = "returned"
  /\ UNCHANGED <<intervalString, now>>
  /\ UNCHANGED rvars
  /\ UNCHANGED qvars

NextInterval == ParseInterval

SpecInterval == InitInterval /\ [][NextInterval]_vars

\* ============================================================= the run claims
\* The lines run prints for an error it finds before the data source.
EarlyErrorLines ==
  {"Unexpected allow", "output must be one of json, csv, tsv, or flat",
   "must have a host", "no query found please use --query (-q) flag",
   "Could not parse query as SQL:", "SQL must be a SELECT or DESCRIBE query"}

\* The first line of every configuration or parse error.
ConfigErrorLines ==
  EarlyErrorLines \cup {"must have data source", "Could not parse interval"}

\* The lines that carry a result.
ResultLines ==
  {RenderLine(o) : o \in {"json", "csv", "tsv", "flat"}} \cup {"<attributes JSON>"}

\* The lines of the verbose branch and of the verbose requester.
LogLines ==
  {"Parsed query as the following plywood expression (as JSON):",
   "<expression JSON>", "---------------------------",
   "<verbose: sending query>", "<verbose: got answer>"}

Printed(lines) == \E k \in 1..Len(out) : out[k] \in lines

\* The options ask for the usage or the version, not for a query.
UsageOrVersion ==
  (~command /\ (NoArguments(parsed) \/ parsed.help)) \/ parsed.version

\* The options hold one of the errors C6 lists.
BadOptions ==
  \/ \E k \in 1..Len(parsed.allow) : parsed.allow[k] \notin {"eternity", "select"}
  \/ OutputOf(parsed) \notin {"json", "csv", "tsv", "flat"}
  \/ parsed.druid = "" /\ parsed.host = ""
  \/ parsed.query = ""
  \/ parseSQL(parsed.query).threw
  \/ parseSQL(parsed.query).verb \notin {"SELECT", "DESCRIBE"}
  \/ parsed.dataSource = "" /\ parseSQL(parsed.query).table = ""
  \/ Len(parsed.interval) > 2

\* The attempts made on the bare transport, over all requests.
RECURSIVE AttemptsUpTo(_)
AttemptsUpTo(n) == IF n = 0 THEN 0 ELSE requests[n].attempts + AttemptsUpTo(n - 1)

TransportCalls == AttemptsUpTo(MaxReq)

\* C6: when run reports a configuration or parse error it returns at once, and
\* that invocation never calls introspect, compute or the transport; every
\* error C6 lists is reported.
C6_NoActivityAfterConfigError ==
  /\ Printed(ConfigErrorLines) =>
       /\ pc = "returned"
       /\ engineCalls = <<>>
       /\ ~dataset.built
       /\ arrived = 0
       /\ TransportCalls = 0
  /\ pc # "start" /\ ~UsageOrVersion /\ BadOptions =>
       Printed(ConfigErrorLines) /\ pc = "returned"

\* C6's case: an output format outside the four, in otherwise good options.
C6_Witness ==
  /\ pc = "returned"
  /\ parsed.output = "xml"
  /\ parsed.host # ""
  /\ parsed.query = "SELECT * FROM bar"
  /\ parsed.allow = <<"eternity", "select">>
  /\ out = <<"output must be one of json, csv, tsv, or flat">>

\* The invocation failed: run returned on an error, or the engine's promise
\* was rejected.
Failed ==
  \/ pc = "returned" /\ ~Printed({"<usage>", "<version>"})
  \/ pc = "rejected"

\* C7: every failing invocation writes exactly one line, and no result.
C7_ExactlyOneLine == Failed => Len(out) = 1 /\ ~Printed(ResultLines)

\* C7, as amended: a failing invocation prints no result and at most one error
\* report, after the verbose lines if any: one line for an allow, output,
\* host, query or data source error, two lines for an interval parse error,
\* one line for a rejected SELECT when run parsed the command line, and no
\* line when a DESCRIBE is rejected or run was given a command object.
C7_OneErrorReport ==
  Failed =>
    /\ ~Printed(ResultLines)
    /\ pc = "returned" =>
         \/ \E l \in EarlyErrorLines : out = <<l>>
         \/ out = VerboseLines(parsed.verbose) \o <<"must have data source">>
         \/ \E m \in {"Can not parse string", "TypeError"} :
              out = VerboseLines(parsed.verbose) \o <<"Could not parse interval", m>>
    /\ pc = "rejected" =>
         IF ~command /\ engineCalls = <<"compute">>
           THEN /\ Len(out) >= 1
                /\ out[Len(out)] = "There was an error getting the data:"
                /\ \A k \in 1..(Len(out) - 1) : out[k] \in LogLines
                /\ ~parsed.verbose => Len(out) = 1
           ELSE /\ \A k \in 1..Len(out) : out[k] \in LogLines
                /\ ~parsed.verbose => out = <<>>

\* C7's case: an interval string of three parts has been reported.
C7_Witness ==
  /\ pc = "returned"
  /\ ~parsed.verbose
  /\ Len(parsed.interval) = 3
  /\ out = <<"Could not parse interval", "Can not parse string">>

\* run reached the data source resolution of line 209.
ReachedDataSource ==
  pc # "start" /\ ~Printed(EarlyErrorLines \cup {"<usage>", "<version>"})

\* C8: the --data-source flag, when given, is the data source and the dataset
\* is bound as 'data'; without it the query's table is both; with neither run
\* prints 'must have data source' and builds no dataset.
C8_DataSourceResolution ==
  LET flag == parsed.dataSource
      table == parseSQL(parsed.query).table
  IN  ReachedDataSource =>
        /\ flag # "" =>
             /\ dataSource = flag
             /\ dataName = "data"
             /\ dataset.built => dataset.dataSource = flag
             /\ engineCalls = <<"compute">> => context = {"data"}
        /\ flag = "" /\ table # "" =>
             /\ dataSource = table
             /\ dataName = table
             /\ dataset.built => dataset.dataSource = table
             /\ engineCalls = <<"compute">> => context = {table}
        /\ flag = "" /\ table = "" =>
             /\ pc = "returned"
             /\ out = VerboseLines(parsed.verbose) \o <<"must have data source">>
             /\ ~dataset.built
             /\ engineCalls = <<>>

\* C8's case: the flag 'foo' with a query that names the table 'bar'.
C8_Witness ==
  /\ parsed.dataSource = "foo"
  /\ parsed.query = "SELECT * FROM bar"
  /\ pc = "executing"
  /\ dataset.built
  /\ dataset.dataSource = "foo"
  /\ context = {"data"}

\* The options pass every check of run (the interval, if any, starts with a
\* duration).
GoodOptions ==
  /\ ~UsageOrVersion
  /\ ~BadOptions
  /\ parsed.interval # <<>> => parsed.interval[1].P

\* C10, in each state: the engine is called exactly once when the options
\* pass, never otherwise, with introspect for DESCRIBE and compute on the
\* bound dataset for SELECT; a rendered result is printed only once a SELECT's
\* compute has been fulfilled.
C10_State ==
  /\ pc \in {"start", "returned", "executing", "resolved", "rejected"}
  /\ pc \in {"start", "returned"} => engineCalls = <<>>
  /\ pc # "start" /\ GoodOptions => pc \in {"executing", "resolved", "rejected"}
  /\ pc \in {"executing", "resolved", "rejected"} =>
       /\ Len(engineCalls) = 1
       /\ dataset.built
       /\ parseSQL(parsed.query).verb = "DESCRIBE" => engineCalls = <<"introspect">>
       /\ parseSQL(parsed.query).verb = "SELECT" =>
            engineCalls = <<"compute">> /\ context = {dataName}
  /\ Printed({RenderLine(o) : o \in {"json", "csv", "tsv", "flat"}}) =>
       /\ pc = "resolved"
       /\ engineCalls = <<"compute">>
       /\ out[Len(out)] = RenderLine(OutputOf(parsed))

\* C10, in each step: the states follow start, executing, resolved or
\* rejected (or start, returned), and nothing is called or printed once the
\* invocation is over.
C10_Step ==
  /\ pc' # pc =>
       <<pc, pc'>> \in {<<"start", "returned">>, <<"start", "executing">>,
                        <<"executing", "resolved">>, <<"executing", "rejected">>}
  /\ pc \in {"returned", "resolved", "rejected"} =>
       UNCHANGED <<pc, out, engineCalls, requests, arrived>>

\* C10: an invocation goes from resolving to executing to rendering to done,
\* or fails; the engine is called exactly once, and nothing follows the end.
C10_Lifecycle == []C10_State /\ [][C10_Step]_vars

\* C10's case: a SELECT has been computed and rendered.
C10_Witness ==
  /\ pc = "resolved"
  /\ ~command
  /\ engineCalls = <<"compute">>
  /\ arrived = MaxRunReq
  /\ out[Len(out)] = RenderLine(OutputOf(parsed))

\* ======================================================= the requester claims
\* The requests admitted beneath the concurrent limit layer and not settled:
\* at the bare transport, or in the retry layer's delay.
InFlight == {i \in 1..MaxReq : requests[i].st \in {"sent", "delay"}}

\* The bare transport failed twice on request i, without a timeout, and then
\* answered it.
FailedTwiceThenSucceeded(i) ==
  /\ requests[i].st = "ok"
  /\ requests[i].failures = 2
  /\ requests[i].timeouts = 0

\* retry=2, verbose=true, concurrent=1, and run has built the requester.
C2_Options ==
  /\ pc # "start"
  /\ RetryOf(parsed) = 2
  /\ parsed.verbose
  /\ ConcurrentOf(parsed) = 1

\* C2: with retry=2, verbose and concurrent=1, the logging layer observes 3
\* dispatches of a request that fails twice and then succeeds, and no 2
\* requests are ever in flight together.
C2_LoggingSeesThreeDispatches ==
  C2_Options =>
    /\ Cardinality(InFlight) < 2
    /\ \A i \in 1..MaxReq : FailedTwiceThenSucceeded(i) => requests[i].logged = 3

\* C2, as amended: the bare transport is dispatched 3 times, the logging
\* layer, which wraps the retry layer, observes the request once, and no 2
\* requests are ever in flight together.
C2_LoggingSeesOneRequest ==
  C2_Options =>
    /\ Cardinality(InFlight) < 2
    /\ \A i \in 1..MaxReq :
         FailedTwiceThenSucceeded(i) =>
           requests[i].attempts = 3 /\ requests[i].logged = 1

\* C2's case: the second request waits while the first one, failed twice, is
\* answered at its third attempt.
C2_Witness ==
  /\ C2_Options
  /\ FailedTwiceThenSucceeded(1)
  /\ requests[1].attempts = 3
  /\ requests[2].st = "sent"
  /\ requests[3].st = "queued"

\* C3: with a retry count above 0, a timeout ends the request: it is never
\* dispatched again, and the caller gets the timeout.
C3_TimeoutNeverRetried ==
  pc # "start" /\ RetryOf(parsed) > 0 =>
    /\ HasLayer(requester, "retry")
    /\ \A i \in 1..MaxReq :
         /\ requests[i].timeouts > 0 =>
              /\ requests[i].st = "failed"
              /\ requests[i].error = "timeout"
              /\ requests[i].timeouts = 1
         /\ requests[i].timeouts > 0 /\ requests[i].timeouts = requests[i].failures =>
              requests[i].attempts = 1
    /\ engineError = "timeout" =>
         \E i \in 1..MaxReq : requests[i].st = "failed" /\ requests[i].error = "timeout"

\* C3's case: the first attempt timed out under the largest retry count.
C3_Witness ==
  /\ RetryOf(parsed) = MaxRetry
  /\ HasLayer(requester, "retry")
  /\ requests[1].st = "failed"
  /\ requests[1].error = "timeout"
  /\ requests[1].attempts = 1
  /\ engineError = "timeout"

\* The limit of the concurrent limit layer.
Limit == ConcurrentOf(parsed)

\* C4, in each state: with a limit N above 0 at most N requests are in flight,
\* retries included, a request waits only while N are, and the queue holds
\* the waiting requests in arrival order; with N = 0 there is no limit layer
\* and no request ever waits.
C4_State ==
  pc # "start" =>
    /\ Limit > 0 =>
         /\ HasLayer(requester, "concurrentLimit")
         /\ Cardinality(InFlight) <= Limit
         /\ outstandingRequests = Cardinality(InFlight)
         /\ requestQueue # <<>> => Cardinality(InFlight) = Limit
         /\ \A i \in 1..MaxReq :
              requests[i].st = "queued" <=>
                \E k \in 1..Len(requestQueue) : requestQueue[k] = i
         /\ \A k, l \in 1..Len(requestQueue) :
              k < l => requestQueue[k] < requestQueue[l]
    /\ Limit = 0 =>
         /\ ~HasLayer(requester, "concurrentLimit")
         /\ requestQueue = <<>>
         /\ \A i \in 1..MaxReq : requests[i].st # "queued"
         /\ \A i \in 1..arrived : requests[i].st # "idle"

\* C4, in each step: the request that leaves the queue is the one that
\* arrived first, and it is dispatched at once.
C4_Step ==
  \A i \in 1..MaxReq :
    requests[i].st = "queued" /\ requests'[i].st # "queued" =>
      /\ i = Head(requestQueue)
      /\ requests'[i].st = "sent"
      /\ \A j \in 1..MaxReq : requests'[j].st = "queued" => i < j

\* C4: the concurrent limit layer admits at most N requests, in arrival
\* order; with N = 0 it is not there.
C4_ConcurrencyLimit == []C4_State /\ [][C4_Step]_vars

\* C4's case: under a limit of 1 the second request has been admitted from
\* the queue, ahead of the third, which still waits.
C4_Witness ==
  /\ parsed.concurrent = Given(1)
  /\ requests[1].st \in {"ok", "failed"}
  /\ requests[2].st = "delay"
  /\ requestQueue = <<3>>
  /\ outstandingRequests = 1

InstantThenDuration ==
  Len(intervalString) = 2 /\ ~intervalString[1].P /\ intervalString[2].P

DurationFirst == Len(intervalString) <= 2 /\ intervalString[1].P

InstantThenInstant ==
  Len(intervalString) = 2 /\ ~intervalString[1].P /\ ~intervalString[2].P

\* C1: for 'A/B' with A an instant and B a duration, parseIntervalString
\* returns the range with start = A and end = A + B.
C1_InstantPlusDuration ==
  ipc = "returned" /\ InstantThenDuration =>
    /\ ~interval.threw
    /\ interval.start = NewDate(intervalString[1])
    /\ interval.end =
         NewDate(intervalString[1]) + DurationFromJS(intervalString[2])

\* C9: every range parseIntervalString returns for duration/instant,
\* instant/duration, instant/instant or a single duration has start <= end.
C9_StartNotAfterEnd ==
  /\ ipc = "returned"
  /\ ~interval.threw
  /\ InstantThenDuration \/ DurationFirst \/ InstantThenInstant
  => interval.start <= interval.end

\* C9, as amended: a range resolved from a leading duration (duration/instant,
\* or a single duration back from now) has start <= end; instant/instant is
\* returned as given, so start <= end exactly when the left instant is not
\* after the right one.
C9_StartNotAfterEndWhereMeasured ==
  ipc = "returned" /\ ~interval.threw =>
    /\ DurationFirst =>
         /\ interval.start <= interval.end
         /\ interval.end - interval.start = DurationFromJS(intervalString[1])
    /\ InstantThenInstant =>
         /\ interval.start = NewDate(intervalString[1])
         /\ interval.end = NewDate(intervalString[2])
         /\ interval.start <= interval.end <=>
              NewDate(intervalString[1]) <= NewDate(intervalString[2])

\* C9's case: a single duration has been measured back from now.
C9_Witness ==
  /\ ipc = "returned"
  /\ Len(intervalString) = 1
  /\ intervalString[1].P
  /\ ~interval.threw
  /\ interval.end = now
  /\ interval.start < interval.end

====
